---- MODULE Spec2Model ----
(***************************************************************************)
(* Model of permutations/dense_permutations.py: permutation index vectors, *)
(* their application, inversion and matrix form, the sort permutation, and *)
(* the rescaled cosine similarity with its float64/float32 arithmetic.     *)
(*                                                                         *)
(* Index vectors hold 0-based indices as numpy does; TLA+ sequences are    *)
(* 1-based, so element i of an array a is a[i + 1] (operator Elt).         *)
(* Vector entries are floats holding integers, which float32 and float64   *)
(* represent exactly.                                                      *)
(***************************************************************************)
EXTENDS Integers, Sequences, FiniteSets, TLC

VARIABLES vector1, vector2, permutation, pc, error,
          perm_vector, inv_perm, restored, perm_matrix, sort_perm,
          rperm_vector1, rperm_vector2, sim, sim_perm, normalized

vars == <<vector1, vector2, permutation, pc, error,
          perm_vector, inv_perm, restored, perm_matrix, sort_perm,
          rperm_vector1, rperm_vector2, sim, sim_perm, normalized>>

\* Largest dimension of the vectors and permutations explored.
MaxDim == 3
\* Vector entries of the permutation experiments are drawn from 1..MaxVal.
MaxVal == 3

Vals == 1..MaxVal

Max(a, b) == IF a >= b THEN a ELSE b
Min(a, b) == IF a <= b THEN a ELSE b

\* Element i (0-based) of the array a.
Elt(a, i) == a[i + 1]

\* np.arange(d) as a set: the valid indices of an array of length d.
Indices(d) == 0..(d - 1)

\* All vectors of length d over the value set S.
VectorsOver(S, d) == [1..d -> S]

\* All index vectors that are bijections on 0..d-1.
Perms(d) == {s \in [1..d -> Indices(d)] : \A i, j \in 1..d : s[i] = s[j] => i = j}

IsPermutation(p) == p \in Perms(Len(p))

\* a[::-1]
Reverse(a) == [i \in 1..Len(a) |-> a[Len(a) + 1 - i]]

\* Faulty variant: the sort runs in descending order.
np_argsort_descending(a) ==
    {s \in Perms(Len(a)) : \A i \in 1..(Len(a) - 1) : Elt(a, s[i]) >= Elt(a, s[i + 1])}

\* np.argsort(a) with the default kind ('quicksort'), which numpy documents as
\* not stable: any index vector that lists a in ascending order is a possible
\* result; the order among equal keys is not determined.
np_argsort(a) ==
    {s \in Perms(Len(a)) : \A i \in 1..(Len(a) - 1) : Elt(a, s[i]) <= Elt(a, s[i + 1])}

\* Faulty variant: the [::-1] is missing.
get_sort_permutation_ascending(vector) ==
    {s \in Perms(Len(vector)) : \A i \in 1..(Len(vector) - 1) : Elt(vector, s[i]) <= Elt(vector, s[i + 1])}

\* get_sort_permutation(vector): np.argsort(vector)[::-1], every possible result.
get_sort_permutation(vector) == {Reverse(s) : s \in np_argsort(vector)}

\* get_random_permutation(dimension): np.random.permutation(np.arange(dimension)).
get_random_permutation(dimension) == Perms(dimension)

\* numpy integer-array indexing vector[permutation]: an index i is valid when
\* -len <= i < len (negative indices count from the end); any other index
\* raises IndexError.  The result has the length of the index array.
IndexInRange(i, len) == -len <= i /\ i < len

WrapIndex(i, len) == IF i < 0 THEN i + len ELSE i

\* Faulty variant: a scatter (out[perm[k]] = vector[k]) instead of a gather.
permute_vector_scatter(perm, vector) ==
    IF \A k \in 1..Len(perm) : IndexInRange(perm[k], Len(vector))
    THEN [ok |-> TRUE,
          val |-> [j \in 1..Len(perm) |->
                     IF \E k \in 1..Len(perm) : perm[k] = j - 1
                     THEN vector[CHOOSE k \in 1..Len(perm) : perm[k] = j - 1]
                     ELSE 0]]
    ELSE [ok |-> FALSE, val |-> <<>>]

\* Faulty variant: the indices are read one too low (clipped at the first element).
permute_vector_offbyone(perm, vector) ==
    IF \A k \in 1..Len(perm) : IndexInRange(perm[k], Len(vector))
    THEN [ok |-> TRUE,
          val |-> [k \in 1..Len(perm) |-> vector[Max(1, perm[k])]]]
    ELSE [ok |-> FALSE, val |-> <<>>]

permute_vector(perm, vector) ==
    IF \A k \in 1..Len(perm) : IndexInRange(perm[k], Len(vector))
    THEN [ok |-> TRUE,
          val |-> [k \in 1..Len(perm) |-> Elt(vector, WrapIndex(perm[k], Len(vector)))]]
    ELSE [ok |-> FALSE, val |-> <<>>]

\* Faulty variant: the permutation is taken to be its own inverse.
inverse_permutation_self(perm) == {perm}

\* inverse_permutation(permutation): np.argsort(permutation), every possible result.
inverse_permutation(perm) == np_argsort(perm)

\* Faulty variant: the row and column indices are swapped,
\* perm_matrix[np.arange(d), permutation] = 1.
permutation_to_matrix_swapped(perm) ==
    [r \in 1..Len(perm) |->
        [c \in 1..Len(perm) |-> IF Elt(perm, r - 1) = c - 1 THEN 1 ELSE 0]]

\* Faulty variant: the column index is the permutation too,
\* perm_matrix[permutation, permutation] = 1.
permutation_to_matrix_diagonal(perm) ==
    [r \in 1..Len(perm) |-> [c \in 1..Len(perm) |-> IF r = c THEN 1 ELSE 0]]

\* permutation_to_matrix(permutation): zeros((d, d)), then
\* perm_matrix[permutation, np.arange(d)] = 1, i.e. entry (perm[i], i) is set to 1
\* for every column i.  The matrix is a sequence of rows.
permutation_to_matrix(perm) ==
    [r \in 1..Len(perm) |->
        [c \in 1..Len(perm) |-> IF Elt(perm, c - 1) = r - 1 THEN 1 ELSE 0]]

(***************************************************************************)
(* Arbitrary-precision naturals, needed because a float64 significand has  *)
(* 53 bits and products of two have 106.  A natural is a little-endian     *)
(* sequence of limbs in base 2^15 whose last limb is nonzero; zero is <<>>.*)
(***************************************************************************)
BASE == 2^15

Pow2(k) == 2^k

Limb(a, i) == IF i <= Len(a) THEN a[i] ELSE 0

RECURSIVE BTrim(_)
BTrim(a) ==
    IF a = <<>> THEN a
    ELSE IF a[Len(a)] = 0 THEN BTrim(SubSeq(a, 1, Len(a) - 1)) ELSE a

RECURSIVE BFromNat(_)
BFromNat(n) == IF n = 0 THEN <<>> ELSE <<n % BASE>> \o BFromNat(n \div BASE)

RECURSIVE BAddFrom(_, _, _, _)
BAddFrom(a, b, i, c) ==
    IF i > Len(a) /\ i > Len(b)
    THEN (IF c = 0 THEN <<>> ELSE <<c>>)
    ELSE LET s == Limb(a, i) + Limb(b, i) + c
         IN  <<s % BASE>> \o BAddFrom(a, b, i + 1, s \div BASE)

BAdd(a, b) == BAddFrom(a, b, 1, 0)

\* a - b for a >= b.
RECURSIVE BSubFrom(_, _, _, _)
BSubFrom(a, b, i, borrow) ==
    IF i > Len(a) THEN <<>>
    ELSE LET s == a[i] - Limb(b, i) - borrow
         IN  <<(s + BASE) % BASE>> \o BSubFrom(a, b, i + 1, IF s < 0 THEN 1 ELSE 0)

BSub(a, b) == BTrim(BSubFrom(a, b, 1, 0))

\* -1, 0 or 1 as a < b, a = b or a > b.
RECURSIVE BCmpFrom(_, _, _)
BCmpFrom(a, b, i) ==
    IF i = 0 THEN 0
    ELSE IF a[i] < b[i] THEN -1
    ELSE IF a[i] > b[i] THEN 1
    ELSE BCmpFrom(a, b, i - 1)

BCmp(a, b) ==
    IF Len(a) < Len(b) THEN -1
    ELSE IF Len(a) > Len(b) THEN 1
    ELSE BCmpFrom(a, b, Len(a))

\* a * k for a single limb k.
RECURSIVE BMulSmallFrom(_, _, _, _)
BMulSmallFrom(a, k, i, c) ==
    IF i > Len(a)
    THEN (IF c = 0 THEN <<>> ELSE <<c>>)
    ELSE LET s == a[i] * k + c
         IN  <<s % BASE>> \o BMulSmallFrom(a, k, i + 1, s \div BASE)

BMulSmall(a, k) == IF k = 0 THEN <<>> ELSE BMulSmallFrom(a, k, 1, 0)

RECURSIVE BMulFrom(_, _, _)
BMulFrom(a, b, j) ==
    IF j > Len(b) THEN <<>>
    ELSE LET rest == BMulFrom(a, b, j + 1)
         IN  BAdd(BMulSmall(a, b[j]), IF rest = <<>> THEN <<>> ELSE <<0>> \o rest)

BMul(a, b) == IF a = <<>> \/ b = <<>> THEN <<>> ELSE BMulFrom(a, b, 1)

RECURSIVE SmallBitLen(_)
SmallBitLen(n) == IF n = 0 THEN 0 ELSE 1 + SmallBitLen(n \div 2)

\* Bits per limb.
LimbBits == SmallBitLen(BASE) - 1

\* Number of significant bits of a.
BBitLen(a) ==
    IF a = <<>> THEN 0 ELSE LimbBits * (Len(a) - 1) + SmallBitLen(a[Len(a)])

\* a * 2^k
BShl(a, k) ==
    IF a = <<>> THEN <<>>
    ELSE [i \in 1..(k \div LimbBits) |-> 0] \o BMulSmall(a, Pow2(k % LimbBits))

\* floor(a / 2^k)
BShr(a, k) ==
    LET x == SubSeq(a, (k \div LimbBits) + 1, Len(a))
        r == k % LimbBits
    IN  BTrim([i \in 1..Len(x) |->
                 (x[i] \div Pow2(r)) + (Limb(x, i + 1) % Pow2(r)) * Pow2(LimbBits - r)])

\* Bit k (0-based, from the least significant) of a.
BBit(a, k) == (Limb(a, (k \div LimbBits) + 1) \div Pow2(k % LimbBits)) % 2

\* TRUE iff one of the k low bits of a is set.
BLowNonzero(a, k) ==
    \/ \E i \in 1..(k \div LimbBits) : Limb(a, i) # 0
    \/ Limb(a, (k \div LimbBits) + 1) % Pow2(k % LimbBits) # 0

RECURSIVE SmallTz(_)
SmallTz(n) == IF n % 2 = 1 THEN 0 ELSE 1 + SmallTz(n \div 2)

\* Number of trailing zero bits of a nonzero a.
RECURSIVE BTz(_)
BTz(a) == IF a[1] = 0 THEN LimbBits + BTz(Tail(a)) ELSE SmallTz(a[1])

\* 2 * a + c for a small c, in one pass over the limbs (k * a + c in general).
BScaleAdd(a, k, c) == BMulSmallFrom(a, k, 1, c)

\* The bits of a from bit lo upward, as a number below 4 when two bits are asked.
BBits2(a, lo) == BBit(a, lo) + 2 * BBit(a, lo + 1)

\* Binary long division: quotient q and remainder r of a by b # 0.  Bits i
\* down to lo of a are brought down by BDivBits; BDivChunks walks a in chunks
\* of ChunkBits bits, which keeps the recursion shallow.  The leading
\* BBitLen(b) - 1 bits of a are below b and start the remainder.
ChunkBits == LimbBits \div 2

RECURSIVE BDivBits(_, _, _, _, _, _)
BDivBits(a, b, i, lo, q, r) ==
    IF i < lo THEN [q |-> q, r |-> r]
    ELSE LET r2 == BScaleAdd(r, 2, BBit(a, i))
             ge == BCmp(r2, b) >= 0
             nq == BScaleAdd(q, 2, IF ge THEN 1 ELSE 0)
             nr == IF ge THEN BSub(r2, b) ELSE r2
         IN  IF Len(nq) + Len(nr) >= 0
             THEN BDivBits(a, b, i - 1, lo, nq, nr)
             ELSE [q |-> nq, r |-> nr]

RECURSIVE BDivChunks(_, _, _, _, _)
BDivChunks(a, b, i, q, r) ==
    IF i < 0 THEN [q |-> q, r |-> r]
    ELSE LET lo == Max(0, i - ChunkBits + 1)
             s == BDivBits(a, b, i, lo, q, r)
         IN  IF Len(s.q) >= 0 THEN BDivChunks(a, b, lo - 1, s.q, s.r) ELSE s

BDivMod(a, b) ==
    LET top == Max(0, BBitLen(a) - BBitLen(b) + 1)
    IN  BDivChunks(a, b, top - 1, <<>>, BShr(a, top))

\* Integer square root with remainder, two bits of n per step from the top
\* (the pencil-and-paper method): root = floor(sqrt(n)), rem = n - root^2.
\* i is the index of the low bit of the pair brought down.
RECURSIVE BSqrtBits(_, _, _, _, _)
BSqrtBits(n, i, lo, root, rem) ==
    IF i < lo THEN [root |-> root, rem |-> rem]
    ELSE LET r4 == BScaleAdd(rem, 4, BBits2(n, i))
             trial == BScaleAdd(root, 4, 1)
             ge == BCmp(r4, trial) >= 0
             nroot == BScaleAdd(root, 2, IF ge THEN 1 ELSE 0)
             nrem == IF ge THEN BSub(r4, trial) ELSE r4
         IN  IF Len(nroot) + Len(nrem) >= 0
             THEN BSqrtBits(n, i - 2, lo, nroot, nrem)
             ELSE [root |-> nroot, rem |-> nrem]

RECURSIVE BSqrtChunks(_, _, _, _)
BSqrtChunks(n, i, root, rem) ==
    IF i < 0 THEN [root |-> root, rem |-> rem]
    ELSE LET lo == Max(0, i - 2 * ChunkBits + 2)
             s == BSqrtBits(n, i, lo, root, rem)
         IN  IF Len(s.root) >= 0 THEN BSqrtChunks(n, lo - 2, s.root, s.rem) ELSE s

BSqrtRem(n) == BSqrtChunks(n, 2 * ((BBitLen(n) - 1) \div 2), <<>>, <<>>)

(***************************************************************************)
(* IEEE-754 binary floating point with round-to-nearest-even, at a given   *)
(* precision P (bits of significand): 53 for np.float64, 24 for            *)
(* np.float32.  A finite value is (-1)^sign * m * 2^e with m an odd        *)
(* natural (or m = 0, written with sign 0 and e 0), so equal values have   *)
(* equal records.  The exponent range is not modelled: the values reached  *)
(* from the bounded inputs neither overflow nor underflow.  Division by    *)
(* zero follows numpy (a warning, and nan or inf as the value).            *)
(***************************************************************************)
DoublePrec == 53
SinglePrec == 24

NaN == [cls |-> "nan", sign |-> 0, m |-> <<>>, e |-> 0]
Inf(sign) == [cls |-> "inf", sign |-> sign, m |-> <<>>, e |-> 0]
Zero == [cls |-> "num", sign |-> 0, m |-> <<>>, e |-> 0]

IsZero(x) == x.cls = "num" /\ x.m = <<>>

Xor(a, b) == IF a = b THEN 0 ELSE 1

\* The canonical record of (-1)^sign * n * 2^e.
FCanon(sign, n, e) ==
    IF n = <<>> THEN Zero
    ELSE LET tz == BTz(n)
         IN  [cls |-> "num", sign |-> sign, m |-> BShr(n, tz), e |-> e + tz]

\* Round (-1)^sign * (n + f) * 2^e to P significant bits, to nearest, ties to
\* even, where 0 <= f < 1 and sticky says whether f > 0.
FRound(sign, n, e, sticky, P) ==
    LET len == BBitLen(n)
    IN  IF len <= P THEN FCanon(sign, n, e)
        ELSE LET sh == len - P
                 q == BShr(n, sh)
                 guard == BBit(n, sh - 1) = 1
                 rest == sticky \/ BLowNonzero(n, sh - 1)
                 up == guard /\ (rest \/ BBit(q, 0) = 1)
             IN  FCanon(sign, IF up THEN BAdd(q, <<1>>) ELSE q, e + sh)

\* An integer as a float (exact for the integers used).
FromInt(n) == FCanon(IF n < 0 THEN 1 ELSE 0, BFromNat(IF n < 0 THEN -n ELSE n), 0)

\* x.astype(P): narrowing (or widening) to precision P.
FCast(x, P) == IF x.cls = "num" THEN FRound(x.sign, x.m, x.e, FALSE, P) ELSE x

FAdd(x, y, P) ==
    IF x.cls = "nan" \/ y.cls = "nan" THEN NaN
    ELSE IF x.cls = "inf" /\ y.cls = "inf" THEN (IF x.sign = y.sign THEN x ELSE NaN)
    ELSE IF x.cls = "inf" THEN x
    ELSE IF y.cls = "inf" THEN y
    ELSE IF IsZero(x) THEN FCast(y, P)
    ELSE IF IsZero(y) THEN FCast(x, P)
    ELSE LET e == Min(x.e, y.e)
             nx == BShl(x.m, x.e - e)
             ny == BShl(y.m, y.e - e)
             c == BCmp(nx, ny)
         IN  IF x.sign = y.sign THEN FRound(x.sign, BAdd(nx, ny), e, FALSE, P)
             ELSE IF c = 0 THEN Zero
             ELSE IF c > 0 THEN FRound(x.sign, BSub(nx, ny), e, FALSE, P)
             ELSE FRound(y.sign, BSub(ny, nx), e, FALSE, P)

FMul(x, y, P) ==
    IF x.cls = "nan" \/ y.cls = "nan" THEN NaN
    ELSE IF x.cls = "inf" \/ y.cls = "inf"
         THEN (IF IsZero(x) \/ IsZero(y) THEN NaN ELSE Inf(Xor(x.sign, y.sign)))
    ELSE FRound(Xor(x.sign, y.sign), BMul(x.m, y.m), x.e + y.e, FALSE, P)

\* The quotient of two finite nonzero values, rounded to P bits.
FDivFinite(x, y, P) ==
    IF y.m = <<1>> THEN FRound(Xor(x.sign, y.sign), x.m, x.e - y.e, FALSE, P)
    ELSE LET k == Max(0, BBitLen(y.m) + P + 2 - BBitLen(x.m))
             dm == BDivMod(BShl(x.m, k), y.m)
         IN  FRound(Xor(x.sign, y.sign), dm.q, x.e - y.e - k, dm.r # <<>>, P)

\* Faulty variant: a division that guards against a zero divisor and returns 0.
FDiv_guarded(x, y, P) ==
    IF x.cls = "nan" \/ y.cls = "nan" THEN NaN
    ELSE IF x.cls = "inf" THEN (IF y.cls = "inf" THEN NaN ELSE Inf(Xor(x.sign, y.sign)))
    ELSE IF y.cls = "inf" THEN Zero
    ELSE IF IsZero(y) \/ IsZero(x) THEN Zero
    ELSE FDivFinite(x, y, P)

\* x / y: division by zero gives nan (0 / 0) or inf, as numpy does.
FDiv(x, y, P) ==
    IF x.cls = "nan" \/ y.cls = "nan" THEN NaN
    ELSE IF x.cls = "inf" THEN (IF y.cls = "inf" THEN NaN ELSE Inf(Xor(x.sign, y.sign)))
    ELSE IF y.cls = "inf" THEN Zero
    ELSE IF IsZero(y) THEN (IF IsZero(x) THEN NaN ELSE Inf(Xor(x.sign, y.sign)))
    ELSE IF IsZero(x) THEN Zero
    ELSE FDivFinite(x, y, P)

\* np.sqrt
FSqrt(x, P) ==
    IF x.cls = "nan" THEN NaN
    ELSE IF IsZero(x) THEN Zero
    ELSE IF x.sign = 1 THEN NaN
    ELSE IF x.cls = "inf" THEN x
    ELSE LET k0 == Max(0, 2 * P + 3 - BBitLen(x.m))
             k == k0 + ((x.e - k0) % 2)
             n == BShl(x.m, k)
             s == BSqrtRem(n)
         IN  FRound(0, s.root, (x.e - k) \div 2, s.rem # <<>>, P)

\* -1, 0 or 1 as x < y, x = y or x > y, for x and y other than nan.
FSignum(x) == IF IsZero(x) THEN 0 ELSE IF x.sign = 1 THEN -1 ELSE 1

FCmp(x, y) ==
    IF FSignum(x) # FSignum(y) THEN (IF FSignum(x) < FSignum(y) THEN -1 ELSE 1)
    ELSE IF FSignum(x) = 0 THEN 0
    ELSE IF x.cls = "inf" \/ y.cls = "inf"
         THEN (IF x.cls = y.cls THEN 0
               ELSE IF x.cls = "inf" THEN FSignum(x) ELSE -FSignum(x))
    ELSE LET e == Min(x.e, y.e)
         IN  FSignum(x) * BCmp(BShl(x.m, x.e - e), BShl(y.m, y.e - e))

\* Comparisons of floats; every comparison with nan is false.
FLess(x, y) == x.cls # "nan" /\ y.cls # "nan" /\ FCmp(x, y) < 0

FLeq(x, y) == x.cls # "nan" /\ y.cls # "nan" /\ FCmp(x, y) <= 0

FEq(x, y) == x.cls # "nan" /\ y.cls # "nan" /\ FCmp(x, y) = 0

IsFinite(x) == x.cls = "num"

\* np.dot(v1, v2) of two 1-d arrays of precision P: the products accumulated
\* left to right, each operation rounded to P bits (the order in which a dot
\* product of so few elements is accumulated).
RECURSIVE np_dot_from(_, _, _, _, _)
np_dot_from(v1, v2, i, acc, P) ==
    IF i > Len(v1) THEN acc
    ELSE np_dot_from(v1, v2, i + 1, FAdd(acc, FMul(v1[i], v2[i], P), P), P)

np_dot(v1, v2, P) == np_dot_from(v1, v2, 1, Zero, P)

\* An integer-valued vector as the float32 array the program holds.
AsFloats(vector) == [i \in 1..Len(vector) |-> FCast(FromInt(vector[i]), SinglePrec)]

\* normalize(vector): vector / np.sqrt(np.dot(vector, vector)), all in float32.
normalize(vector) ==
    LET v == AsFloats(vector)
        norm == FSqrt(np_dot(v, v, SinglePrec), SinglePrec)
    IN  [i \in 1..Len(v) |-> FDiv(v[i], norm, SinglePrec)]

\* cosine_similarity(vector1, vector2)
cosine_similarity(v1, v2) ==
    LET w1 == [i \in 1..Len(v1) |-> FCast(AsFloats(v1)[i], DoublePrec)]
        w2 == [i \in 1..Len(v2) |-> FCast(AsFloats(v2)[i], DoublePrec)]
        norm1 == FSqrt(np_dot(w1, w1, DoublePrec), DoublePrec)
        norm2 == FSqrt(np_dot(w2, w2, DoublePrec), DoublePrec)
        _cosine_similarity ==
            FDiv(np_dot(w1, w2, DoublePrec), FMul(norm1, norm2, DoublePrec), DoublePrec)
    IN  FCast(FDiv(FAdd(_cosine_similarity, FromInt(1), DoublePrec), FromInt(2), DoublePrec),
              SinglePrec)

(***************************************************************************)
(* The experiments.  Every function of the module is an action that reads  *)
(* its arguments from the state and stores its result; pc names the last   *)
(* step taken.                                                             *)
(***************************************************************************)
\* The value of a score that has not been computed.
NoScore == [cls |-> "none", sign |-> 0, m |-> <<>>, e |-> 0]

\* A float32 value whose square, 9 * 2^50, lies where the float64 grid
\* has spacing 2, so that adding 1 to it is a tie.
Big == 3 * 2^25

\* Entries of the vectors of the similarity experiments.
SimVals == {1, 2, Big}

ZeroVector(d) == [i \in 1..d |-> 0]

IsZeroVector(v) == \A i \in 1..Len(v) : v[i] = 0

\* The vector 1, 2, ..., d.
RampVector(d) == [i \in 1..d |-> i]

Negate(v) == [i \in 1..Len(v) |-> -v[i]]

Blank ==
    /\ error = "none"
    /\ perm_vector = <<>> /\ inv_perm = <<>> /\ restored = <<>>
    /\ perm_matrix = <<>> /\ sort_perm = <<>>
    /\ rperm_vector1 = <<>> /\ rperm_vector2 = <<>>
    /\ sim = NoScore /\ sim_perm = NoScore /\ normalized = <<>>

\* A vector and an index vector, each of any length up to MaxDim.
Init ==
    /\ pc = "start"
    /\ \E dv \in 1..MaxDim : vector1 \in VectorsOver(Vals, dv)
    /\ \E dp \in 1..MaxDim : permutation \in get_random_permutation(dp)
    /\ vector2 = <<>>
    /\ Blank

\* permute_vector(permutation, vector1)
PermuteVector ==
    /\ pc = "start"
    /\ LET r == permute_vector(permutation, vector1)
       IN  IF r.ok
           THEN /\ perm_vector' = r.val
                /\ pc' = "permuted"
                /\ error' = error
           ELSE /\ error' = "IndexError"
                /\ pc' = "failed"
                /\ perm_vector' = perm_vector
    /\ UNCHANGED <<vector1, vector2, permutation, inv_perm, restored, perm_matrix,
                   sort_perm, rperm_vector1, rperm_vector2, sim, sim_perm, normalized>>

\* inverse_permutation(permutation)
InversePermutation ==
    /\ pc = "permuted"
    /\ \E q \in inverse_permutation(permutation) : inv_perm' = q
    /\ pc' = "inverted"
    /\ UNCHANGED <<vector1, vector2, permutation, error, perm_vector, restored,
                   perm_matrix, sort_perm, rperm_vector1, rperm_vector2, sim,
                   sim_perm, normalized>>

\* permute_vector(inverse_permutation(permutation), perm_vector)
PermuteBack ==
    /\ pc = "inverted"
    /\ LET r == permute_vector(inv_perm, perm_vector)
       IN  IF r.ok
           THEN /\ restored' = r.val
                /\ pc' = "restored"
                /\ error' = error
           ELSE /\ error' = "IndexError"
                /\ pc' = "failed"
                /\ restored' = restored
    /\ UNCHANGED <<vector1, vector2, permutation, perm_vector, inv_perm, perm_matrix,
                   sort_perm, rperm_vector1, rperm_vector2, sim, sim_perm, normalized>>

\* permutation_to_matrix(permutation)
PermutationToMatrix ==
    /\ pc = "start"
    /\ perm_matrix' = permutation_to_matrix(permutation)
    /\ pc' = "matrix"
    /\ UNCHANGED <<vector1, vector2, permutation, error, perm_vector, inv_perm,
                   restored, sort_perm, rperm_vector1, rperm_vector2, sim, sim_perm,
                   normalized>>

\* get_sort_permutation(vector1)
GetSortPermutation ==
    /\ pc = "start"
    /\ \E s \in get_sort_permutation(vector1) : sort_perm' = s
    /\ pc' = "sortperm"
    /\ UNCHANGED <<vector1, vector2, permutation, error, perm_vector, inv_perm,
                   restored, perm_matrix, rperm_vector1, rperm_vector2, sim, sim_perm,
                   normalized>>

\* permute_vector(get_sort_permutation(vector1), vector1)
PermuteSorted ==
    /\ pc = "sortperm"
    /\ perm_vector' = permute_vector(sort_perm, vector1).val
    /\ pc' = "sorted"
    /\ UNCHANGED <<vector1, vector2, permutation, error, inv_perm, restored,
                   perm_matrix, sort_perm, rperm_vector1, rperm_vector2, sim, sim_perm,
                   normalized>>

Next ==
    \/ PermuteVector
    \/ InversePermutation
    \/ PermuteBack
    \/ PermutationToMatrix
    \/ GetSortPermutation
    \/ PermuteSorted

Spec == Init /\ [][Next]_vars

\* Two vectors of one length up to MaxDim: vector1 is the zero vector or has
\* entries in SimVals; vector2 is its negation (the antiparallel vector), the
\* vector 1, 2, ..., d or the zero vector.
InitSim ==
    /\ pc = "start"
    /\ \E d \in 1..MaxDim :
          /\ vector1 \in VectorsOver(SimVals, d) \cup {ZeroVector(d)}
          /\ vector2 \in {Negate(vector1), RampVector(d), ZeroVector(d)}
    /\ permutation = <<>>
    /\ Blank

\* normalize(vector1)
Normalize ==
    /\ pc = "start"
    /\ normalized' = normalize(vector1)
    /\ pc' = "normalized"
    /\ UNCHANGED <<vector1, vector2, permutation, error, perm_vector, inv_perm,
                   restored, perm_matrix, sort_perm, rperm_vector1, rperm_vector2,
                   sim, sim_perm>>

\* cosine_similarity(vector1, vector2)
CosineSimilarity ==
    /\ pc = "start"
    /\ sim' = cosine_similarity(vector1, vector2)
    /\ pc' = "scored"
    /\ UNCHANGED <<vector1, vector2, permutation, error, perm_vector, inv_perm,
                   restored, perm_matrix, sort_perm, rperm_vector1, rperm_vector2,
                   sim_perm, normalized>>

\* randompermvec = get_random_permutation(DIMENSION)
GetRandomPermutation ==
    /\ pc = "scored"
    /\ \E p \in get_random_permutation(Len(vector1)) : permutation' = p
    /\ pc' = "permchosen"
    /\ UNCHANGED <<vector1, vector2, error, perm_vector, inv_perm, restored,
                   perm_matrix, sort_perm, rperm_vector1, rperm_vector2, sim,
                   sim_perm, normalized>>

\* rperm_vector1 = permute_vector(randompermvec, vector1), and likewise vector2
PermuteBoth ==
    /\ pc = "permchosen"
    /\ rperm_vector1' = permute_vector(permutation, vector1).val
    /\ rperm_vector2' = permute_vector(permutation, vector2).val
    /\ pc' = "bothpermuted"
    /\ UNCHANGED <<vector1, vector2, permutation, error, perm_vector, inv_perm,
                   restored, perm_matrix, sort_perm, sim, sim_perm, normalized>>

\* cosine_similarity(rperm_vector1, rperm_vector2)
CosineSimilarityPermuted ==
    /\ pc = "bothpermuted"
    /\ sim_perm' = cosine_similarity(rperm_vector1, rperm_vector2)
    /\ pc' = "rescored"
    /\ UNCHANGED <<vector1, vector2, permutation, error, perm_vector, inv_perm,
                   restored, perm_matrix, sort_perm, rperm_vector1, rperm_vector2,
                   sim, normalized>>

NextSim ==
    \/ Normalize
    \/ CosineSimilarity
    \/ GetRandomPermutation
    \/ PermuteBoth
    \/ CosineSimilarityPermuted

SpecSim == InitSim /\ [][NextSim]_vars

(***************************************************************************)
(* Reference notions used to state the properties.                         *)
(***************************************************************************)
\* The matrix-vector product M . v (np.matmul(M, v)).
RECURSIVE SumTo(_, _)
SumTo(f, n) == IF n = 0 THEN 0 ELSE f[n] + SumTo(f, n - 1)

MatVec(M, v) == [r \in 1..Len(M) |-> SumTo([c \in 1..Len(v) |-> M[r][c] * v[c]], Len(v))]

\* The vector-matrix product v . M (np.matmul(v, M)).
VecMat(v, M) == [c \in 1..Len(v) |-> SumTo([r \in 1..Len(M) |-> v[r] * M[r][c]], Len(M))]

Transpose(M) == [r \in 1..Len(M) |-> [c \in 1..Len(M) |-> M[c][r]]]

\* The stable ascending argsort: ascending by value, equal values in
\* ascending index order.
StableArgsort(a) ==
    CHOOSE s \in Perms(Len(a)) :
        \A i \in 1..(Len(a) - 1) :
            \/ Elt(a, s[i]) < Elt(a, s[i + 1])
            \/ Elt(a, s[i]) = Elt(a, s[i + 1]) /\ s[i] < s[i + 1]

Distinct(a) == \A i, j \in 1..Len(a) : a[i] = a[j] => i = j

SameLength == Len(permutation) = Len(vector1)

One == FromInt(1)

\* The float64 dot product of two integer vectors is exact when it equals the
\* dot product accumulated with more precision than any partial sum needs.
ExactPrec == 4 * DoublePrec

ExactDot(a, b) ==
    np_dot(AsFloats(a), AsFloats(b), DoublePrec) = np_dot(AsFloats(a), AsFloats(b), ExactPrec)

ExactDots(a, b) == ExactDot(a, a) /\ ExactDot(b, b) /\ ExactDot(a, b)

(***************************************************************************)
(* Properties.                                                             *)
(***************************************************************************)
\* C1: inversion round trip.  For a permutation p and a vector v of the same
\* length, q = inverse_permutation(p) satisfies q[p[i]] = i for all i, and
\* permute_vector(q, permute_vector(p, v)) is v, element for element.
InversionRoundTrip ==
    /\ pc \in {"inverted", "restored"} =>
          \A i \in 1..Len(permutation) : Elt(inv_perm, permutation[i]) = i - 1
    /\ (pc = "restored" /\ SameLength) => restored = vector1

InversionRoundTripWitness ==
    /\ pc = "restored" /\ SameLength
    /\ Len(permutation) >= 3
    /\ inv_perm # permutation
    /\ perm_vector # vector1
    /\ restored = vector1

\* C2 as claimed: the matrix-vector product permutation_to_matrix(p) . v equals
\* permute_vector(p, v), i.e. row i of the product is v[p[i]].
MatrixGatherEquivalence ==
    (pc = "matrix" /\ SameLength) =>
        MatVec(perm_matrix, vector1) = permute_vector(permutation, vector1).val

\* C2 as amended: the vector-matrix product v . permutation_to_matrix(p) (the
\* transpose of the matrix applied to v) equals permute_vector(p, v): entry i
\* of the product is v[p[i]].
VectorMatrixGatherEquivalence ==
    (pc = "matrix" /\ SameLength) =>
        /\ VecMat(vector1, perm_matrix) = permute_vector(permutation, vector1).val
        /\ \A i \in 1..Len(permutation) :
              VecMat(vector1, perm_matrix)[i] = Elt(vector1, permutation[i])

VectorMatrixGatherWitness ==
    /\ pc = "matrix" /\ SameLength
    /\ Distinct(vector1)
    /\ permutation \notin inverse_permutation(permutation)
    /\ MatVec(perm_matrix, vector1) # VecMat(vector1, perm_matrix)

\* C3: permutation_to_matrix(p) is a d-by-d matrix M with M[p[i], i] = 1 for
\* all i and every other entry 0, so each row and each column holds exactly
\* one 1.
PermutationMatrixShape ==
    pc = "matrix" =>
        LET d == Len(permutation)
            M == perm_matrix
        IN  /\ Len(M) = d
            /\ \A r \in 1..d : Len(M[r]) = d
            /\ \A i \in 0..(d - 1) : M[Elt(permutation, i) + 1][i + 1] = 1
            /\ \A r, c \in 1..d : M[r][c] = (IF Elt(permutation, c - 1) = r - 1 THEN 1 ELSE 0)
            /\ \A r \in 1..d : Cardinality({c \in 1..d : M[r][c] = 1}) = 1
            /\ \A c \in 1..d : Cardinality({r \in 1..d : M[r][c] = 1}) = 1
            /\ \A r, c \in 1..d : M[r][c] \in {0, 1}

PermutationMatrixWitness ==
    /\ pc = "matrix"
    /\ Len(permutation) >= 3
    /\ permutation \notin inverse_permutation(permutation)
    /\ perm_matrix # Transpose(perm_matrix)

\* C4: get_sort_permutation(v) is a bijection on 0..d-1 and gathering v with
\* it gives a vector in descending order; v = [3,1,2] gives the permutation
\* [0,2,1] and the result [3,2,1].
SortPermutationDescending ==
    /\ pc \in {"sortperm", "sorted"} =>
          /\ Len(sort_perm) = Len(vector1)
          /\ IsPermutation(sort_perm)
          /\ vector1 = <<3, 1, 2>> => sort_perm = <<0, 2, 1>>
    /\ pc = "sorted" =>
          /\ \A i \in 1..(Len(perm_vector) - 1) : perm_vector[i] >= perm_vector[i + 1]
          /\ vector1 = <<3, 1, 2>> => perm_vector = <<3, 2, 1>>

SortPermutationWitness ==
    /\ pc = "sorted"
    /\ vector1 = <<3, 1, 2>>
    /\ perm_vector = <<3, 2, 1>>

SimilarityRange ==
    (pc = "scored" /\ ~IsZeroVector(vector1) /\ ~IsZeroVector(vector2)) =>
        FLeq(Zero, sim) /\ FLeq(sim, One)

\* C8: permute_vector(p, v) with p and v of different lengths ends in a
\* failure and returns no vector.
DimensionMismatchIsError ==
    (pc \in {"permuted", "failed"} /\ ~SameLength) =>
        pc = "failed" /\ error # "none" /\ perm_vector = <<>>

\* C9: normalize(v) with a zero-norm v and cosine_similarity(v1, v2) with a
\* zero-norm v1 or v2 give the not-a-number outcome, never an ordinary
\* number: no finite entry, no score in [0, 1].
ZeroNormIsNaN ==
    /\ (pc = "normalized" /\ IsZeroVector(vector1)) =>
          /\ Len(normalized) = Len(vector1)
          /\ \A i \in 1..Len(normalized) :
                normalized[i].cls = "nan" /\ ~IsFinite(normalized[i])
    /\ (pc = "scored" /\ (IsZeroVector(vector1) \/ IsZeroVector(vector2))) =>
          /\ sim.cls = "nan"
          /\ ~(FLeq(Zero, sim) /\ FLeq(sim, One))
    /\ (pc = "rescored" /\ (IsZeroVector(vector1) \/ IsZeroVector(vector2))) =>
          sim_perm.cls = "nan"

ZeroNormWitness ==
    /\ pc = "scored"
    /\ ~IsZeroVector(vector1) /\ IsZeroVector(vector2)
    /\ Len(vector1) >= 2
    /\ sim.cls = "nan"

\* C10: the matrix acts as a scatter.  (permutation_to_matrix(p) . v)[p[i]] =
\* v[i] for all i, hence permutation_to_matrix(p) . v equals
\* permute_vector(inverse_permutation(p), v), and
\* permutation_to_matrix(inverse_permutation(p)) is the transpose of
\* permutation_to_matrix(p).
MatrixIsScatter ==
    (pc = "matrix" /\ SameLength) =>
        /\ \A i \in 1..Len(permutation) :
              Elt(MatVec(perm_matrix, vector1), permutation[i]) = vector1[i]
        /\ \A q \in inverse_permutation(permutation) :
              /\ MatVec(perm_matrix, vector1) = permute_vector(q, vector1).val
              /\ permutation_to_matrix(q) = Transpose(perm_matrix)

MatrixIsScatterWitness ==
    /\ pc = "matrix" /\ SameLength
    /\ Len(permutation) >= 3
    /\ Distinct(vector1)
    /\ permutation \notin inverse_permutation(permutation)
    /\ MatVec(perm_matrix, vector1) # permute_vector(permutation, vector1).val

====
